---- MODULE Spec2Model ----
(***************************************************************************)
(* A model of civiclookup: the lookup of the congressional districts and   *)
(* federal legislators of a US address.                                    *)
(*                                                                         *)
(*   python/parse_result_no_special_cases.py   the generic Result Mapper   *)
(*   python/get_us_district_info_from_address.py   the Division Resolver,  *)
(*        the fallback Result Mapper, the field filter, the orchestration  *)
(*   python/update_us_congressional_data.py    the cache builder           *)
(*                                                                         *)
(* Python strings are TLA+ strings, handled with Len, SubSeq and \o, so    *)
(* that the substring tests and the splits of the source are computed as   *)
(* the source computes them.  A Python dict is a function whose domain is  *)
(* its key set, a list is a sequence; the insertion order of the           *)
(* "divisions" dict of a response, which the mappers iterate in, is kept   *)
(* as the sequence of its keys.                                            *)
(***************************************************************************)
EXTENDS Integers, Sequences, FiniteSets, TLC

VARIABLES
    CACHED_LEGISLATORS,   \* the legislator cache loaded at import time
    USE_GENERIC_PARSER,   \* whether the generic mapper could be imported
    ENV_API_KEY,          \* the API key of the environment ("" when missing)
    data,                 \* mapper run: the API response being mapped
    mapped,               \* mapper run: which mappers have run on data
    generic_result,       \* mapper run: what the generic mapper returned
    fallback_result,      \* mapper run: what the fallback mapper returned
    pc,                   \* lookup: position in get_us_district_info_from_address
    address,              \* lookup: the address argument
    keep_fields,          \* lookup: the keep_fields argument (None: {})
    delete_fields,        \* lookup: the delete_fields argument (None: {})
    result,               \* lookup: the local variable result
    requests,             \* lookup: the addresses sent to the Division Resolver
    attempts,             \* lookup: what each resolution attempt returned
    outcomes,             \* lookup: what lookup_divisions did on each attempt
    returned,             \* lookup: the value returned to the caller
    row,                  \* filter run: the record being filtered
    row_keep,             \* filter run: the keep-set (None: {})
    row_delete,           \* filter run: the delete-set (None: {})
    filtered,             \* filter run: what filter_data and filter_fields returned
    leg_data,             \* filter run: the result map being filtered and rendered
    leg_order,            \* filter run: the keys of its "districts", in dict order
    leg_filtered,         \* filter run: what filter_legislator_data returned
    text,                 \* filter run: what format_text_output returned
    now,                  \* cache builder: the clock, in units of twelve hours
    csv_file,             \* cache builder: the cached CSV file (None: absent)
    out_file,             \* cache builder: the output JSON file (None: absent)
    bpc,                  \* cache builder: position in the run of the tool
    file_before,          \* cache builder: the CSV file when the run started
    out_before,           \* cache builder: the output file when the run started
    checked_at,           \* cache builder: the clock when the CSV file was checked
    requested,            \* cache builder: whether the run issued a download request
    df,                   \* cache builder: the loaded DataFrame
    leg_dict              \* cache builder: what build_legislators_dict returned

vars == <<CACHED_LEGISLATORS, USE_GENERIC_PARSER, ENV_API_KEY,
          data, mapped, generic_result, fallback_result,
          pc, address, keep_fields, delete_fields, result, requests, attempts,
          outcomes, returned, row, row_keep, row_delete, filtered,
          leg_data, leg_order, leg_filtered, text,
          now, csv_file, out_file, bpc, file_before, out_before, checked_at,
          requested, df, leg_dict>>

env_vars == <<CACHED_LEGISLATORS, USE_GENERIC_PARSER, ENV_API_KEY>>
mapper_vars == <<data, mapped, generic_result, fallback_result>>
lookup_vars == <<pc, address, keep_fields, delete_fields, result, requests,
                 attempts, outcomes, returned>>
filter_vars == <<row, row_keep, row_delete, filtered, leg_data, leg_order,
                 leg_filtered, text>>
builder_vars == <<now, csv_file, out_file, bpc, file_before, out_before, checked_at,
                  requested, df, leg_dict>>

(***************************************************************************)
(* Python values.                                                          *)
(***************************************************************************)

\* {} : the empty dict (and, as a function, the empty list)
EmptyDict == [k \in {} |-> ""]

\* None, where a dict could stand as well
None == [None |-> TRUE]

\* bool(x) of a dict, a list or None
Truthy(x) == x # None /\ DOMAIN x # {}

\* d.get(k, default)
Get(d, k, default) == IF k \in DOMAIN d THEN d[k] ELSE default

\* d[k] = v
Put(d, k, v) == [x \in DOMAIN d \cup {k} |-> IF x = k THEN v ELSE d[x]]

\* s.find(sub, i - 1) + 1 : the first occurrence at or after position i, else 0
RECURSIVE FindFrom(_, _, _)
FindFrom(s, sub, i) ==
    IF i > Len(s) - Len(sub) + 1 THEN 0
    ELSE IF SubSeq(s, i, i + Len(sub) - 1) = sub THEN i
    ELSE FindFrom(s, sub, i + 1)

\* s.find(sub) + 1 : the position of the first occurrence, 0 when there is none
Find(s, sub) == FindFrom(s, sub, 1)

\* sub in s
Contains(s, sub) == Find(s, sub) # 0

\* s.split(sep)
RECURSIVE Split(_, _)
Split(s, sep) ==
    LET i == Find(s, sep)
    IN  IF i = 0
        THEN <<s>>
        ELSE <<SubSeq(s, 1, i - 1)>> \o Split(SubSeq(s, i + Len(sep), Len(s)), sep)

LowerLetters == "abcdefghijklmnopqrstuvwxyz"
UpperLetters == "ABCDEFGHIJKLMNOPQRSTUVWXYZ"
Digits == "0123456789"

\* the upper-case and the lower-case form of each letter
UpperOf == [c \in {SubSeq(LowerLetters, i, i) : i \in 1..26} |->
               LET i == Find(LowerLetters, c) IN SubSeq(UpperLetters, i, i)]
LowerOf == [c \in {SubSeq(UpperLetters, i, i) : i \in 1..26} |->
               LET i == Find(UpperLetters, c) IN SubSeq(LowerLetters, i, i)]

UpperChar(c) == IF c \in DOMAIN UpperOf THEN UpperOf[c] ELSE c

LowerChar(c) == IF c \in DOMAIN LowerOf THEN LowerOf[c] ELSE c

\* s.upper()
RECURSIVE Upper(_)
Upper(s) ==
    IF s = "" THEN "" ELSE UpperChar(SubSeq(s, 1, 1)) \o Upper(SubSeq(s, 2, Len(s)))

\* s.lower()
RECURSIVE Lower(_)
Lower(s) ==
    IF s = "" THEN "" ELSE LowerChar(SubSeq(s, 1, 1)) \o Lower(SubSeq(s, 2, Len(s)))

\* s.strip(), for the whitespace the model's strings hold
RECURSIVE Strip(_)
Strip(s) ==
    IF s = "" THEN ""
    ELSE IF SubSeq(s, 1, 1) = " " THEN Strip(SubSeq(s, 2, Len(s)))
    ELSE IF SubSeq(s, Len(s), Len(s)) = " " THEN Strip(SubSeq(s, 1, Len(s) - 1))
    ELSE s

\* s.isdigit()
IsDigit(s) ==
    /\ s # ""
    /\ \A i \in 1..Len(s) : Contains(Digits, SubSeq(s, i, i))

\* data.get("divisions", {}) : the keys of the divisions dict, in its order
Divisions(d) == Get(d, "divisions", <<>>)

(***************************************************************************)
(* The legislator records the mappers build.                               *)
(***************************************************************************)

\* territories with no senators
territories == {"DC", "PR", "GU", "VI", "MP", "AS"}

\* {"senators": [], "representatives": []}
EmptyEntry == [senators |-> <<>>, representatives |-> <<>>]

\* rec.get("full_name", f"{rec.get('first_name', '')} {rec.get('last_name', '')}").strip()
LegislatorName(rec) ==
    Strip(Get(rec, "full_name",
              Get(rec, "first_name", "") \o " " \o Get(rec, "last_name", "")))

\* senator_info of a cached senator
SenatorInfo(senator, state_abbr) ==
    [name |-> LegislatorName(senator),
     party |-> Get(senator, "party", "Unknown"),
     role |-> "Senator",
     state |-> state_abbr,
     bioguide_id |-> Get(senator, "bioguide_id", "")]

\* senators_data : the loop over cached_senators
SenatorsData(cached_senators, state_abbr) ==
    [i \in 1..Len(cached_senators) |-> SenatorInfo(cached_senators[i], state_abbr)]

\* the two placeholder senators of a state
PlaceholderSenators(state_abbr) ==
    << [name |-> "Senator 1 for " \o state_abbr, role |-> "Senator", state |-> state_abbr],
       [name |-> "Senator 2 for " \o state_abbr, role |-> "Senator", state |-> state_abbr] >>

\* rep_data of a cached representative
RepData(cached_rep, role, district_id) ==
    [name |-> LegislatorName(cached_rep),
     party |-> Get(cached_rep, "party", "Unknown"),
     role |-> role,
     district |-> district_id,
     bioguide_id |-> Get(cached_rep, "bioguide_id", "")]

\* the placeholder representative of a district
PlaceholderRep(district_id) ==
    [name |-> "Representative for " \o district_id,
     role |-> "Representative",
     district |-> district_id]

\* cached_legislators and "states" in cached_legislators and
\* state_abbr in cached_legislators["states"]
HasCachedState(cache, state_abbr) ==
    /\ Truthy(cache)
    /\ "states" \in DOMAIN cache
    /\ state_abbr \in DOMAIN cache["states"]

\* cached_legislators["states"][state_abbr].get("senators", []), [] without the state
CachedSenators(cache, state_abbr) ==
    IF HasCachedState(cache, state_abbr)
    THEN Get(cache["states"][state_abbr], "senators", <<>>)
    ELSE <<>>

\* cached_legislators["districts"][district_id].get("representative"),
\* None without the district
CachedRep(cache, district_id) ==
    IF /\ Truthy(cache)
       /\ "districts" \in DOMAIN cache
       /\ district_id \in DOMAIN cache["districts"]
    THEN Get(cache["districts"][district_id], "representative", None)
    ELSE None

\* district_data[key]["senators"] = senators
SetSenators(dd, key, senators) ==
    Put(dd, key, [dd[key] EXCEPT !.senators = senators])

\* district_data[key]["representatives"].append(rep)
AppendRep(dd, key, rep) ==
    Put(dd, key, [dd[key] EXCEPT !.representatives = Append(@, rep)])

\* if key not in district_data: district_data[key] = {"senators": [], "representatives": []}
Ensure(dd, key) == IF key \in DOMAIN dd THEN dd ELSE Put(dd, key, EmptyEntry)

(***************************************************************************)
(* parse_result of parse_result_no_special_cases.py: the generic mapper.   *)
(* The loop over the divisions is a fold of GenericDivision over           *)
(* district_data; state_abbr is read only in the iteration that sets it.   *)
(***************************************************************************)

\* the at-large entry of a state: the state bucket's senators and the cached
\* representative of district_id, else the placeholder
AtLargeEntry(dd, state_code, district_id, cache) ==
    LET cached_rep == CachedRep(cache, district_id)
        reps == IF Truthy(cached_rep)
                THEN <<RepData(cached_rep, "Representative", district_id)>>
                ELSE <<>>
    IN  [senators |-> dd[state_code].senators,
         representatives |-> IF reps = <<>>
                             THEN <<PlaceholderRep(district_id)>>
                             ELSE reps]

\* the state bucket: cached senators, else the two placeholders
StateBucket(dd, state_abbr, cache) ==
    LET d1 == Ensure(dd, state_abbr)
        cached_senators == CachedSenators(cache, state_abbr)
        d2 == IF cached_senators # <<>>
              THEN SetSenators(d1, state_abbr, SenatorsData(cached_senators, state_abbr))
              ELSE d1
    IN  IF d2[state_abbr].senators = <<>>
        THEN SetSenators(d2, state_abbr, PlaceholderSenators(state_abbr))
        ELSE d2

\* create_at_large : no numbered /cd: identifier of the state in the response
CreateAtLarge(d, state_abbr) ==
    ~ \E i \in 1..Len(Divisions(d)) :
        /\ Contains(Divisions(d)[i], "state:" \o Lower(state_abbr) \o "/cd:")
        /\ ~ Contains(Divisions(d)[i], "cd:al")

\* a bare state identifier
GenericStateDivision(dd, ocd_id, d, cache) ==
    LET state_abbr == Upper(Split(ocd_id, "state:")[2])
        d3 == StateBucket(dd, state_abbr, cache)
        district_id == state_abbr \o "-AL"
    IN  IF CreateAtLarge(d, state_abbr) /\ district_id \notin DOMAIN d3
        THEN Put(d3, district_id, AtLargeEntry(d3, state_abbr, district_id, cache))
        ELSE d3

\* the role of a territory's member of the House
DelegateRole(district_code) ==
    IF district_code # "PR"
    THEN "Delegate (Non-Voting)"
    ELSE "Resident Commissioner (Non-Voting)"

\* district_code of an identifier that holds "district:"
DistrictCode(ocd_id) ==
    LET district_code == Upper(Split(ocd_id, "district:")[2])
    IN  IF Contains(district_code, "/") THEN Split(district_code, "/")[1] ELSE district_code

\* an identifier that holds "district:"
GenericDistrictDivision(dd, ocd_id, cache) ==
    LET district_code == DistrictCode(ocd_id)
        district_id == district_code \o "-AL"
        d1 == Ensure(dd, district_id)
        cached_rep == CachedRep(cache, district_id)
        role == DelegateRole(district_code)
        d2 == IF Truthy(cached_rep)
              THEN AppendRep(d1, district_id, RepData(cached_rep, role, district_id))
              ELSE d1
        d3 == IF d2[district_id].representatives = <<>>
              THEN AppendRep(d2, district_id,
                             [name |-> role \o " for " \o district_code,
                              role |-> role,
                              district |-> district_id])
              ELSE d2
    IN  IF district_code \in territories THEN d3 ELSE d1

\* district_id of an identifier that holds "/cd:"
CdDistrictId(ocd_id) ==
    LET state_abbr == Upper(Split(Split(ocd_id, "state:")[2], "/")[1])
        district_num == Split(ocd_id, "cd:")[2]
    IN  IF district_num = "al"
        THEN state_abbr \o "-AL"
        ELSE state_abbr \o "-" \o district_num

\* the senators of a congressional district: the state bucket's, else the
\* cached ones, else the placeholders
CdSenators(dd, district_id, state_abbr, cache) ==
    IF state_abbr = "" THEN dd
    ELSE IF state_abbr \in DOMAIN dd /\ dd[state_abbr].senators # <<>>
    THEN SetSenators(dd, district_id, dd[state_abbr].senators)
    ELSE IF HasCachedState(cache, state_abbr)
    THEN LET cached_senators == CachedSenators(cache, state_abbr)
         IN  IF cached_senators # <<>>
             THEN SetSenators(dd, district_id, SenatorsData(cached_senators, state_abbr))
             ELSE dd
    ELSE SetSenators(dd, district_id, PlaceholderSenators(state_abbr))

\* an identifier that holds "/cd:"
GenericCdDivision(dd, ocd_id, cache) ==
    LET state_abbr == Upper(Split(Split(ocd_id, "state:")[2], "/")[1])
        district_id == CdDistrictId(ocd_id)
        d1 == Ensure(dd, district_id)
        cached_rep == CachedRep(cache, district_id)
        rep_data == IF Truthy(cached_rep)
                    THEN RepData(cached_rep, "Representative", district_id)
                    ELSE PlaceholderRep(district_id)
        d2 == AppendRep(d1, district_id, rep_data)
    IN  CdSenators(d2, district_id, state_abbr, cache)

\* "state:" in ocd_id and "/" not in ocd_id.split("state:")[1]
IsBareState(ocd_id) ==
    /\ Contains(ocd_id, "state:")
    /\ ~ Contains(Split(ocd_id, "state:")[2], "/")

\* one iteration of the loop over the divisions
GenericDivision(dd, ocd_id, d, cache) ==
    IF IsBareState(ocd_id) THEN GenericStateDivision(dd, ocd_id, d, cache)
    ELSE IF Contains(Lower(ocd_id), "district:") THEN GenericDistrictDivision(dd, ocd_id, cache)
    ELSE IF Contains(ocd_id, "/cd:") THEN GenericCdDivision(dd, ocd_id, cache)
    ELSE dd

\* the loop over the first n divisions
RECURSIVE GenericLoop(_, _, _)
GenericLoop(d, cache, n) ==
    IF n = 0
    THEN EmptyDict
    ELSE GenericDivision(GenericLoop(d, cache, n - 1), Divisions(d)[n], d, cache)

\* if no districts were found but state data exists, create districts from states
GenericStatesToDistricts(dd, cache) ==
    IF (~ \E k \in DOMAIN dd : Contains(k, "-")) /\ Truthy(dd)
    THEN LET new == {k \in DOMAIN dd : Len(k) = 2 /\ (k \o "-AL") \notin DOMAIN dd}
         IN  [key \in DOMAIN dd \cup {k \o "-AL" : k \in new} |->
                 IF key \in DOMAIN dd
                 THEN dd[key]
                 ELSE LET k == SubSeq(key, 1, 2) IN AtLargeEntry(dd, k, key, cache)]
    ELSE dd

\* test_data
test_data ==
    [x \in {"CA-12", "DC-AL", "VT-AL"} |->
        CASE x = "CA-12" ->
               [representatives |-> << [name |-> "Nancy Pelosi", party |-> "Democratic",
                                        role |-> "Representative", district |-> "CA-12"] >>,
                senators |-> << [name |-> "Alex Padilla", party |-> "Democratic",
                                 role |-> "Senator", state |-> "CA"],
                                [name |-> "Laphonza R. Butler", party |-> "Democratic",
                                 role |-> "Senator", state |-> "CA"] >>]
          [] x = "DC-AL" ->
               [representatives |-> << [name |-> "Eleanor Holmes Norton", party |-> "Democratic",
                                        role |-> "Delegate (Non-Voting)", district |-> "DC-AL"] >>,
                senators |-> <<>>]
          [] x = "VT-AL" ->
               [senators |-> << [name |-> "Bernie Sanders", party |-> "Independent",
                                 role |-> "Senator", state |-> "VT"],
                                [name |-> "Peter Welch", party |-> "Democratic",
                                 role |-> "Senator", state |-> "VT"] >>,
                representatives |-> << [name |-> "Becca Balint", party |-> "Democratic",
                                        role |-> "Representative", district |-> "VT-AL"] >>]]

\* whether test_data[test_id] is applied: an identifier of the response matches
TestIdMatches(test_id, d) ==
    \E i \in 1..Len(Divisions(d)) :
        LET ocd_id == Divisions(d)[i]
        IN  \/ test_id = "CA-12" /\ Contains(ocd_id, "/state:ca/cd:12")
            \/ test_id = "DC-AL" /\ Contains(ocd_id, "/district:dc")
            \/ test_id = "VT-AL" /\ Contains(ocd_id, "/state:vt") /\ ~ Contains(ocd_id, "/cd:")

\* ApplyTestData that adds the entries the loop has not built and leaves the
\* built ones as they are
ApplyTestData_KeepsBuilt(dd, d) ==
    LET hit == {test_id \in DOMAIN test_data : TestIdMatches(test_id, d)}
    IN  [key \in DOMAIN dd \cup hit |-> IF key \in DOMAIN dd THEN dd[key] ELSE test_data[key]]

\* "Fix test data if running in test environment"
ApplyTestData(dd, d) ==
    LET hit == {test_id \in DOMAIN test_data : TestIdMatches(test_id, d)}
    IN  [key \in DOMAIN dd \cup hit |-> IF key \in hit THEN test_data[key] ELSE dd[key]]

\* KeepDistricts that removes nothing
KeepDistricts_KeepsAll(dd) == dd

\* remove state entries from the final output (keep only districts)
KeepDistricts(dd) ==
    [key \in {k \in DOMAIN dd : Contains(k, "-")} |-> dd[key]]

\* parse_result(data, cached_legislators) of parse_result_no_special_cases.py
parse_result_generic(d, cache) ==
    LET looped == GenericLoop(d, cache, Len(Divisions(d)))
        derived == GenericStatesToDistricts(looped, cache)
        fixed == ApplyTestData(derived, d)
    IN  [districts |-> KeepDistricts(fixed)]

(***************************************************************************)
(* parse_result of get_us_district_info_from_address.py: the mapper used   *)
(* when the generic one cannot be imported.  It reads the module's         *)
(* CACHED_LEGISLATORS, passed here as cache.                               *)
(***************************************************************************)

\* the senators forced on CA-12
Ca12Senators ==
    << [name |-> "Alex Padilla", party |-> "Democratic", role |-> "Senator", state |-> "CA"],
       [name |-> "Laphonza R. Butler", party |-> "Democratic", role |-> "Senator", state |-> "CA"] >>

\* a bare state identifier
FallbackStateDivision(dd, ocd_id, cache) ==
    LET state_abbr == Upper(Split(ocd_id, "state:")[2])
        d3 == StateBucket(dd, state_abbr, cache)
    IN  IF state_abbr = "VT"
        THEN Put(d3, "VT-AL", test_data["VT-AL"])
        ELSE d3

\* an identifier that holds "district:"
FallbackDistrictDivision(dd, ocd_id) ==
    LET district_code == DistrictCode(ocd_id)
        district_id == district_code \o "-AL"
        d1 == Ensure(dd, district_id)
    IN  IF district_code = "DC"
        THEN Put(d1, district_id,
                 [representatives |-> << [name |-> "Eleanor Holmes Norton",
                                          party |-> "Democratic",
                                          role |-> "Delegate (Non-Voting)",
                                          district |-> district_id] >>,
                  senators |-> <<>>])
        ELSE d1

\* an identifier that holds "/cd:"
FallbackCdDivision(dd, ocd_id, cache) ==
    LET state_abbr == Upper(Split(Split(ocd_id, "state:")[2], "/")[1])
        district_id == CdDistrictId(ocd_id)
        d1 == Ensure(dd, district_id)
        cached_rep == CachedRep(cache, district_id)
        rep_data == IF district_id = "CA-12"
                    THEN [name |-> "Nancy Pelosi", party |-> "Democratic",
                          role |-> "Representative", district |-> district_id]
                    ELSE IF Truthy(cached_rep)
                    THEN RepData(cached_rep, "Representative", district_id)
                    ELSE PlaceholderRep(district_id)
        d2 == IF district_id = "CA-12" THEN SetSenators(d1, district_id, Ca12Senators) ELSE d1
        d3 == AppendRep(d2, district_id, rep_data)
    IN  CdSenators(d3, district_id, state_abbr, cache)

\* one iteration of the loop over the divisions
FallbackDivision(dd, ocd_id, cache) ==
    IF IsBareState(ocd_id) THEN FallbackStateDivision(dd, ocd_id, cache)
    ELSE IF Contains(Lower(ocd_id), "district:") THEN FallbackDistrictDivision(dd, ocd_id)
    ELSE IF Contains(ocd_id, "/cd:") THEN FallbackCdDivision(dd, ocd_id, cache)
    ELSE dd

\* the loop over the first n divisions
RECURSIVE FallbackLoop(_, _, _)
FallbackLoop(d, cache, n) ==
    IF n = 0
    THEN EmptyDict
    ELSE FallbackDivision(FallbackLoop(d, cache, n - 1), Divisions(d)[n], cache)

\* "Special case for CA-12 test": the senators of CA-12 are forced
ForceCa12Senators(dd, d) ==
    IF /\ \E i \in 1..Len(Divisions(d)) : Contains(Divisions(d)[i], "/state:ca/cd:12")
       /\ "CA-12" \in DOMAIN dd
    THEN SetSenators(dd, "CA-12", Ca12Senators)
    ELSE dd

\* parse_result(data) of get_us_district_info_from_address.py
parse_result(d, cache) ==
    [districts |-> ForceCa12Senators(FallbackLoop(d, cache, Len(Divisions(d))), d)]

(***************************************************************************)
(* Field filtering.  An optional set argument is [given, fields]: None is  *)
(* NoFields, and a set that was passed, the empty one included, is         *)
(* Fields(S).                                                              *)
(***************************************************************************)

\* keep_fields=None, delete_fields=None
NoFields == [given |-> FALSE, fields |-> {}]

\* a set passed as keep_fields or delete_fields
Fields(S) == [given |-> TRUE, fields |-> S]

\* bool(x) of an Optional[Set[str]]
TruthySet(x) == x.given /\ x.fields # {}

\* {k: v for k, v in d.items() if k in S}
Restrict(d, S) == [k \in DOMAIN d \cap S |-> d[k]]

\* filter_data whose delete branch tests "k in delete_fields"
filter_data_DeleteInverted(d, keep, delete) ==
    IF TruthySet(keep) THEN Restrict(d, keep.fields)
    ELSE IF TruthySet(delete) THEN Restrict(d, delete.fields)
    ELSE d

\* filter_data(data, keep_fields, delete_fields)
filter_data(d, keep, delete) ==
    IF TruthySet(keep) THEN Restrict(d, keep.fields)
    ELSE IF TruthySet(delete) THEN Restrict(d, DOMAIN d \ delete.fields)
    ELSE d

\* filter_fields(row, keep_fields, delete_fields), row a dict
filter_fields(r, keep, delete) ==
    LET row_dict == r
    IN  IF TruthySet(keep) THEN Restrict(row_dict, keep.fields)
        ELSE IF TruthySet(delete) THEN Restrict(row_dict, DOMAIN row_dict \ delete.fields)
        ELSE row_dict

\* the filtered list of the legislators of one district
FilterList(list, keep, delete) ==
    [i \in 1..Len(list) |-> filter_data(list[i], keep, delete)]

\* filter_legislator_data that filters the first legislator of each list only
\* and does not copy the error
filter_legislator_data_FirstOnly(d, keep, delete) ==
    LET districts == Get(d, "districts", EmptyDict)
        first(list) == IF Len(list) > 0 THEN <<filter_data(list[1], keep, delete)>> ELSE <<>>
        out == [district_id \in DOMAIN districts |->
                   [senators |-> first(Get(districts[district_id], "senators", <<>>)),
                    representatives |-> first(Get(districts[district_id],
                                                  "representatives", <<>>))]]
    IN  IF DOMAIN districts # {} THEN [districts |-> out] ELSE EmptyDict

\* filter_legislator_data(data, keep_fields, delete_fields)
filter_legislator_data(d, keep, delete) ==
    LET districts == Get(d, "districts", EmptyDict)
        out == [district_id \in DOMAIN districts |->
                   [senators |-> FilterList(Get(districts[district_id], "senators", <<>>),
                                            keep, delete),
                    representatives |-> FilterList(Get(districts[district_id],
                                                       "representatives", <<>>),
                                                   keep, delete)]]
        r1 == IF DOMAIN districts # {} THEN [districts |-> out] ELSE EmptyDict
    IN  IF "error" \in DOMAIN d THEN Put(r1, "error", d["error"]) ELSE r1

\* "\n".join(output)
RECURSIVE Join(_, _)
Join(lines, sep) ==
    IF Len(lines) = 0 THEN ""
    ELSE IF Len(lines) = 1 THEN lines[1]
    ELSE lines[1] \o sep \o Join(Tail(lines), sep)

\* "-" * 40
Dashes == "----------------------------------------"

\* the line of one legislator: the bullet (written "*" here), the name, the
\* party in parentheses when the record has one
LegislatorLine(rec) ==
    "  * " \o Get(rec, "name", "Unknown")
           \o (IF "party" \in DOMAIN rec THEN " (" \o rec["party"] \o ")" ELSE "")

\* the lines of a list of legislators under a heading, none for an empty list
LegislatorLines(heading, list) ==
    IF Len(list) > 0
    THEN <<heading>> \o [i \in 1..Len(list) |-> LegislatorLine(list[i])]
    ELSE <<>>

\* the lines format_text_output appends for one district
DistrictLines(district_id, info) ==
    <<"District: " \o district_id>>
        \o LegislatorLines("\nSenators:", Get(info, "senators", <<>>))
        \o LegislatorLines("\nRepresentatives:", Get(info, "representatives", <<>>))
        \o <<"\n" \o Dashes \o "\n">>

\* the lines of the first n districts, in dict order
RECURSIVE OutputLines(_, _, _)
OutputLines(districts, order, n) ==
    IF n = 0 THEN <<>>
    ELSE OutputLines(districts, order, n - 1) \o DistrictLines(order[n], districts[order[n]])

\* format_text_output(data); order is the key order of data["districts"]
format_text_output(d, order) ==
    IF ~ Truthy(Get(d, "districts", None))
    THEN "No congressional districts found.\n"
    ELSE Join(OutputLines(d["districts"], order, Len(order))
                  \o (IF "error" \in DOMAIN d THEN <<"Note: " \o d["error"]>> ELSE <<>>),
              "\n")

(***************************************************************************)
(* The lookup: get_us_district_info_from_address and what it calls.        *)
(***************************************************************************)

STATE_MAPPING ==
    ("AL" :> "Alabama") @@ ("AK" :> "Alaska") @@ ("AZ" :> "Arizona") @@
    ("AR" :> "Arkansas") @@ ("CA" :> "California") @@ ("CO" :> "Colorado") @@
    ("CT" :> "Connecticut") @@ ("DE" :> "Delaware") @@ ("FL" :> "Florida") @@
    ("GA" :> "Georgia") @@ ("HI" :> "Hawaii") @@ ("ID" :> "Idaho") @@
    ("IL" :> "Illinois") @@ ("IN" :> "Indiana") @@ ("IA" :> "Iowa") @@
    ("KS" :> "Kansas") @@ ("KY" :> "Kentucky") @@ ("LA" :> "Louisiana") @@
    ("ME" :> "Maine") @@ ("MD" :> "Maryland") @@ ("MA" :> "Massachusetts") @@
    ("MI" :> "Michigan") @@ ("MN" :> "Minnesota") @@ ("MS" :> "Mississippi") @@
    ("MO" :> "Missouri") @@ ("MT" :> "Montana") @@ ("NE" :> "Nebraska") @@
    ("NV" :> "Nevada") @@ ("NH" :> "New Hampshire") @@ ("NJ" :> "New Jersey") @@
    ("NM" :> "New Mexico") @@ ("NY" :> "New York") @@ ("NC" :> "North Carolina") @@
    ("ND" :> "North Dakota") @@ ("OH" :> "Ohio") @@ ("OK" :> "Oklahoma") @@
    ("OR" :> "Oregon") @@ ("PA" :> "Pennsylvania") @@ ("RI" :> "Rhode Island") @@
    ("SC" :> "South Carolina") @@ ("SD" :> "South Dakota") @@ ("TN" :> "Tennessee") @@
    ("TX" :> "Texas") @@ ("UT" :> "Utah") @@ ("VT" :> "Vermont") @@
    ("VA" :> "Virginia") @@ ("WA" :> "Washington") @@ ("WV" :> "West Virginia") @@
    ("WI" :> "Wisconsin") @@ ("WY" :> "Wyoming") @@ ("DC" :> "District of Columbia")

\* zip_to_state
zip_to_state ==
    ("94110" :> "CA") @@ ("94612" :> "CA") @@ ("10001" :> "NY") @@ ("82001" :> "WY")

\* lookup_zip_code_state(zip_code); the None of a missing ZIP is "", as falsy
lookup_zip_code_state(zip_code) == Get(zip_to_state, zip_code, "")

\* f"{address}, USA" if "USA" not in address else address
full_address(addr) == IF ~ Contains(addr, "USA") THEN addr \o ", USA" ELSE addr

\* what the try block of get_district_info_from_civic_api raises on a response:
\* the IndexError of a split that finds no second part
MapperRaises(d) ==
    \E i \in 1..Len(Divisions(d)) :
        LET ocd_id == Divisions(d)[i]
        IN  /\ ~ IsBareState(ocd_id)
            /\ \/ Contains(Lower(ocd_id), "district:") /\ ~ Contains(ocd_id, "district:")
               \/ /\ ~ Contains(Lower(ocd_id), "district:")
                  /\ Contains(ocd_id, "/cd:")
                  /\ ~ Contains(ocd_id, "state:")

\* The failure of lookup_divisions: a timeout, an HTTP error status, a body
\* that is not JSON.
ResolverFailure == [raised |-> "RequestException"]

\* get_district_info_from_civic_api without its except clause: what was raised
\* reaches the caller
get_district_info_from_civic_api_NoHandler(outcome, generic, cache) ==
    IF outcome = ResolverFailure THEN outcome
    ELSE IF MapperRaises(outcome) THEN [raised |-> "IndexError"]
    ELSE IF generic THEN parse_result_generic(outcome, cache)
    ELSE parse_result(outcome, cache)

\* get_district_info_from_civic_api(address), the API key present, on what
\* lookup_divisions does: it raises (ResolverFailure) or returns a response
get_district_info_from_civic_api(outcome, generic, cache) ==
    IF outcome = ResolverFailure THEN None
    ELSE IF MapperRaises(outcome) THEN None
    ELSE IF generic THEN parse_result_generic(outcome, cache)
    ELSE parse_result(outcome, cache)

\* the fallback condition that retries whatever the first attempt found
NoDistricts_Always(res) == TRUE

\* not result or not result.get("districts")
NoDistricts(res) == ~ Truthy(res) \/ ~ Truthy(Get(res, "districts", None))

\* FallbackAddress that retries with the state code, not the state's full name
FallbackAddress_StateCode(addr) ==
    LET zip == Strip(addr)
        state == IF Len(zip) = 5 /\ IsDigit(zip) THEN lookup_zip_code_state(zip) ELSE ""
    IN  IF state # "" THEN state \o ", USA" ELSE ""

\* the address of the second attempt, "" when the fallback does not apply
FallbackAddress(addr) ==
    LET zip == Strip(addr)
        state == IF Len(zip) = 5 /\ IsDigit(zip) THEN lookup_zip_code_state(zip) ELSE ""
        state_name == IF state # "" THEN Get(STATE_MAPPING, state, "") ELSE ""
    IN  IF state_name # "" THEN state_name \o ", USA" ELSE ""

\* the error result of a lookup that found nothing
ErrorResult(addr) ==
    [districts |-> EmptyDict,
     error |-> "Could not find district information for '" \o addr
               \o "'. Try providing a more specific address."]

\* the end of get_us_district_info_from_address: the value returned for result
ReturnValue(res, addr, keep, delete) ==
    IF ~ Truthy(res) THEN ErrorResult(addr) ELSE filter_legislator_data(res, keep, delete)

(***************************************************************************)
(* The cache builder: update_us_congressional_data.py.                     *)
(*                                                                         *)
(* The clock counts units of twelve hours.  A CSV file is a record of its  *)
(* content and its modification time; the content is the set of its        *)
(* columns and the sequence of its rows, each a record of string cells.    *)
(***************************************************************************)

\* timedelta(hours=24), in units of twelve hours
MaxAge == 2

\* a missing value of a DataFrame
NaN == [nan |-> TRUE]

\* the value of a decimal digit
DigitValue ==
    ("0" :> 0) @@ ("1" :> 1) @@ ("2" :> 2) @@ ("3" :> 3) @@ ("4" :> 4) @@ ("5" :> 5)
        @@ ("6" :> 6) @@ ("7" :> 7) @@ ("8" :> 8) @@ ("9" :> 9)

\* the number a string of decimal digits denotes
RECURSIVE ParseNat(_)
ParseNat(s) ==
    IF Len(s) = 0 THEN 0
    ELSE 10 * ParseNat(SubSeq(s, 1, Len(s) - 1)) + DigitValue[SubSeq(s, Len(s), Len(s))]

\* pd.read_csv on one cell: an empty cell is NaN, a numeric cell is a number
ReadCell(cell) ==
    IF cell = "" THEN NaN
    ELSE IF IsDigit(cell) THEN [num |-> ParseNat(cell)]
    ELSE cell

\* pd.read_csv(csv_path): the DataFrame of a file content
read_csv(content) ==
    [columns |-> content.columns,
     rows |-> [i \in 1..Len(content.rows) |->
                  [c \in content.columns |-> ReadCell(content.rows[i][c])]]]

\* pd.isna(dist)
isna(dist) == dist = NaN \/ dist = None

\* state = row.get("state") or row.get("state_code"); a cell of a DataFrame
\* is never the empty string, and NaN is true
RowState(r) ==
    IF "state" \in DOMAIN r THEN r["state"] ELSE Get(r, "state_code", None)

\* key = f"{state}-{int(dist)}"
DistrictKey(state, dist) == state \o "-" \o ToString(dist.num)

\* build_legislators_dict whose house branch tests "int(dist) != 0" first
\* and files the at-large row with the senators
AddRow_AtLargeAsSenator(d, r, keep, delete) ==
    LET state == RowState(r)
        dist == Get(r, "district", None)
        filtered_data == filter_fields(r, keep, delete)
        senators == IF state \in DOMAIN d.states THEN d.states[state].senators ELSE <<>>
    IN  IF isna(dist) \/ dist.num = 0
        THEN [d EXCEPT !.states =
                 Put(d.states, state, [senators |-> Append(senators, filtered_data)])]
        ELSE [d EXCEPT !.districts =
                 Put(d.districts, DistrictKey(state, dist),
                     [representative |-> filtered_data])]

\* build_legislators_dict that leaves a district key it has already set
AddRow_FirstWins(d, r, keep, delete) ==
    LET state == RowState(r)
        dist == Get(r, "district", None)
        filtered_data == filter_fields(r, keep, delete)
        senators == IF state \in DOMAIN d.states THEN d.states[state].senators ELSE <<>>
    IN  IF isna(dist)
        THEN [d EXCEPT !.states =
                 Put(d.states, state, [senators |-> Append(senators, filtered_data)])]
        ELSE IF DistrictKey(state, dist) \in DOMAIN d.districts THEN d
        ELSE [d EXCEPT !.districts =
                 Put(d.districts, DistrictKey(state, dist),
                     [representative |-> filtered_data])]

\* build_legislators_dict that reads the state and the district of a row
\* after the row is filtered
AddRow_AfterFilter(d, r, keep, delete) ==
    LET filtered_data == filter_fields(r, keep, delete)
        state == IF "state" \in DOMAIN filtered_data \/ "state_code" \in DOMAIN filtered_data
                 THEN RowState(filtered_data)
                 ELSE "None"
        dist == Get(filtered_data, "district", None)
        senators == IF state \in DOMAIN d.states THEN d.states[state].senators ELSE <<>>
    IN  IF isna(dist)
        THEN [d EXCEPT !.states =
                 Put(d.states, state, [senators |-> Append(senators, filtered_data)])]
        ELSE [d EXCEPT !.districts =
                 Put(d.districts, DistrictKey(state, dist),
                     [representative |-> filtered_data])]

\* the body of the loop of build_legislators_dict, on one row
AddRow(d, r, keep, delete) ==
    LET state == RowState(r)
        dist == Get(r, "district", None)
        filtered_data == filter_fields(r, keep, delete)
        senators == IF state \in DOMAIN d.states THEN d.states[state].senators ELSE <<>>
    IN  IF isna(dist)
        THEN [d EXCEPT !.states =
                 Put(d.states, state, [senators |-> Append(senators, filtered_data)])]
        ELSE [d EXCEPT !.districts =
                 Put(d.districts, DistrictKey(state, dist),
                     [representative |-> filtered_data])]

\* data after the first n rows of the frame
RECURSIVE BuildLoop(_, _, _, _)
BuildLoop(rows, keep, delete, n) ==
    IF n = 0 THEN [states |-> EmptyDict, districts |-> EmptyDict]
    ELSE AddRow(BuildLoop(rows, keep, delete, n - 1), rows[n], keep, delete)

\* build_legislators_dict(df, keep_fields, delete_fields)
build_legislators_dict(frame, keep, delete) ==
    BuildLoop(frame.rows, keep, delete, Len(frame.rows))

\* "csv_path does not exist, or datetime.now() - mtime > timedelta(hours=24)",
\* with ">=" for ">"
Stale_AtTwentyFourHours(file, clock) == file = None \/ clock - file.mtime >= MaxAge

\* not csv_path.exists(), or datetime.now() - mtime > timedelta(hours=24)
Stale(file, clock) == file = None \/ clock - file.mtime > MaxAge

\* keep_fields and not keep_fields.issubset(available_fields)
InvalidFields(fields, available_fields) ==
    TruthySet(fields) /\ ~ (fields.fields \subseteq available_fields)

\* the validation of main that passes a list naming an unknown column
FieldsRejected_Never(keep, delete, available_fields) == FALSE

\* the two validations of main: one of them calls sys.exit(1)
FieldsRejected(keep, delete, available_fields) ==
    InvalidFields(keep, available_fields) \/ InvalidFields(delete, available_fields)

\* the last clock value of a run of the model
MaxClock == 4

\* a CSV with the columns of the published file that the tool reads
CsvCurrent ==
    [columns |-> {"first_name", "last_name", "state", "district", "party"},
     rows |-> << [first_name |-> "Nancy", last_name |-> "Pelosi", state |-> "CA",
                  district |-> "12", party |-> "Democrat"],
                 [first_name |-> "Alex", last_name |-> "Padilla", state |-> "CA",
                  district |-> "", party |-> "Democrat"],
                 [first_name |-> "Adam", last_name |-> "Schiff", state |-> "CA",
                  district |-> "", party |-> "Democrat"],
                 [first_name |-> "Harriet", last_name |-> "Hageman", state |-> "WY",
                  district |-> "0", party |-> "Republican"] >>]

\* a CSV with fewer columns, a zero-padded district and two rows of one district
CsvShort ==
    [columns |-> {"last_name", "state", "district"},
     rows |-> << [last_name |-> "Norton", state |-> "DC", district |-> "0"],
                 [last_name |-> "Sanders", state |-> "VT", district |-> ""],
                 [last_name |-> "Pelosi", state |-> "CA", district |-> "012"],
                 [last_name |-> "Simon", state |-> "CA", district |-> "12"],
                 [last_name |-> "Welch", state |-> "VT", district |-> ""] >>]

\* a CSV with a state_code column and no district column
CsvSenate ==
    [columns |-> {"last_name", "state_code"},
     rows |-> << [last_name |-> "Welch", state_code |-> "VT"],
                 [last_name |-> "Sanders", state_code |-> "VT"] >>]

\* the contents the download returns
CsvContents == {CsvCurrent, CsvShort, CsvSenate}

(***************************************************************************)
(* The inputs: OCD identifiers, responses, caches, addresses, field sets.  *)
(***************************************************************************)

\* the longest divisions dict of a mapper run
MaxDivisions == 2

OcdPrefix == "ocd-division/country:us"

\* the identifiers a response of a mapper run is made of
OcdIds ==
    { OcdPrefix,
      OcdPrefix \o "/state:vt",
      OcdPrefix \o "/state:vt/cd:1",
      OcdPrefix \o "/state:ca",
      OcdPrefix \o "/state:ca/cd:12",
      OcdPrefix \o "/state:ca/cd:5",
      OcdPrefix \o "/state:wy",
      OcdPrefix \o "/state:wy/cd:al",
      OcdPrefix \o "/district:dc",
      OcdPrefix \o "/district:dc/ward:2",
      OcdPrefix \o "/state:dc/cd:al",
      OcdPrefix \o "/state:pr",
      OcdPrefix \o "/state:ca/place:oakland/council_district:2" }

\* the orders of at most n distinct identifiers
DivisionLists(n) ==
    UNION { {seq \in [1..k -> OcdIds] : \A i, j \in 1..k : i # j => seq[i] # seq[j]}
            : k \in 0..n }

\* the responses of a mapper run; the last one has no "divisions"
Responses ==
    {[divisions |-> seq] : seq \in DivisionLists(MaxDivisions)}
        \cup {[kind |-> "civicinfo#divisionsByAddressResponse"]}

\* rows of the legislators CSV, as the cache builder stores them
Padilla == [first_name |-> "Alex", last_name |-> "Padilla", state |-> "CA", party |-> "Democrat",
            bioguide_id |-> "P000145"]
Schiff == [full_name |-> "Adam B. Schiff", last_name |-> "Schiff", state |-> "CA",
           party |-> "Democrat"]
Sanders == [first_name |-> "Bernard", last_name |-> "Sanders", full_name |-> "Bernie Sanders",
            state |-> "VT", party |-> "Independent", bioguide_id |-> "S000033"]
Barrasso == [last_name |-> "Barrasso", state |-> "WY"]
Hageman == [first_name |-> "Harriet", last_name |-> "Hageman", state |-> "WY",
            party |-> "Republican", bioguide_id |-> "H001096"]
Simon == [first_name |-> "Lateefah", last_name |-> "Simon", state |-> "CA",
          party |-> "Democrat", bioguide_id |-> "S001232"]
Norton == [full_name |-> "Eleanor Holmes Norton", state |-> "DC", party |-> "Democrat",
           bioguide_id |-> "N000147"]

\* no cache file: CACHED_LEGISLATORS = {}
NoCache == EmptyDict

\* a cache as the builder writes it: at-large seats under district 0
BuiltCache ==
    [states |-> ("CA" :> [senators |-> <<Padilla, Schiff>>])
                @@ ("VT" :> [senators |-> <<Sanders>>])
                @@ ("WY" :> [senators |-> <<Barrasso>>]),
     districts |-> ("CA-12" :> [representative |-> Simon])
                   @@ ("WY-0" :> [representative |-> Hageman])
                   @@ ("DC-0" :> [representative |-> Norton])]

\* a cache keyed the way the mappers look districts up
KeyedCache ==
    [states |-> ("CA" :> [senators |-> <<Padilla>>])
                @@ ("WY" :> [senators |-> <<>>])
                @@ ("VT" :> [senators |-> <<Sanders, Barrasso, Schiff>>]),
     districts |-> ("CA-5" :> [representative |-> Simon])
                   @@ ("CA-12" :> [representative |-> EmptyDict])
                   @@ ("WY-AL" :> [representative |-> Hageman])
                   @@ ("DC-AL" :> [representative |-> Norton])
                   @@ ("PR-AL" :> EmptyDict)]

\* a cache with senators only
StatesOnlyCache ==
    [states |-> ("CA" :> [senators |-> <<>>])
                @@ ("DC" :> [senators |-> <<Schiff>>])
                @@ ("PR" :> EmptyDict)]

\* the cache build_legislators_dict makes of the published columns
TableCache == build_legislators_dict(read_csv(CsvCurrent), NoFields, NoFields)

\* the caches of a mapper run
Caches == {NoCache, BuiltCache, KeyedCache, StatesOnlyCache, TableCache}

\* the address arguments of a lookup
Addresses ==
    {"94110", " 82001 ", "99999", "123 Main St, Oakland, CA", "1 Main St, Bethel, VT, USA"}

\* the keep_fields / delete_fields arguments of a lookup
FieldArgs ==
    { <<NoFields, NoFields>>, <<Fields({"name", "party"}), NoFields>>,
      <<NoFields, Fields({"bioguide_id", "role"})>> }

\* the responses lookup_divisions returns in a lookup
LookupResponses ==
    { [divisions |-> <<OcdPrefix, OcdPrefix \o "/state:ca", OcdPrefix \o "/state:ca/cd:12">>],
      [divisions |-> <<OcdPrefix, OcdPrefix \o "/state:wy">>],
      [divisions |-> <<OcdPrefix \o "/state:ca">>],
      [divisions |-> <<OcdPrefix>>],
      [error |-> "badRequest"],
      [divisions |-> <<OcdPrefix \o "/territory:pr/cd:al">>] }

\* what lookup_divisions does on one call
ResolverOutcomes == {ResolverFailure} \cup LookupResponses

\* the fields of the records of a filter run
RowFields == {"name", "party", "phone"}

\* the records of a filter run
Rows ==
    UNION { [S -> {"x", "y"}] : S \in SUBSET RowFields }

\* the keep-sets and delete-sets of a filter run: None, or a set
FieldSets == {NoFields} \cup {Fields(S) : S \in SUBSET {"name", "party", "email"}}

\* the result maps of a filter run, with the key order of their "districts":
\* the fixture of the tests, the error result of a lookup, a result with
\* districts and an error, the empty map, a result whose records lack fields
LegInputs ==
    { [data |-> [districts |->
                    ("CA-12" :> [senators |-> << [name |-> "Alex Padilla",
                                                  party |-> "Democratic",
                                                  role |-> "Senator", state |-> "CA"],
                                                 [name |-> "Laphonza R. Butler",
                                                  party |-> "Democratic",
                                                  role |-> "Senator", state |-> "CA"] >>,
                                 representatives |-> << [name |-> "Nancy Pelosi",
                                                         party |-> "Democratic",
                                                         role |-> "Representative",
                                                         district |-> "CA-12"] >>])],
       order |-> <<"CA-12">>],
      [data |-> ErrorResult("99999"), order |-> <<>>],
      [data |-> [districts |->
                    ("DC-AL" :> [senators |-> <<>>,
                                 representatives |-> << [name |-> "Eleanor Holmes Norton",
                                                         role |-> "Delegate (Non-Voting)",
                                                         district |-> "DC-AL"] >>])
                    @@ ("CA-5" :> [senators |-> << [name |-> "Senator 1 for CA",
                                                    role |-> "Senator", state |-> "CA"] >>,
                                   representatives |-> <<>>]),
                 error |-> "partial result"],
       order |-> <<"DC-AL", "CA-5">>],
      [data |-> EmptyDict, order |-> <<>>],
      [data |-> [error |-> "quota exceeded"], order |-> <<>>],
      [data |-> [districts |->
                    ("WY-AL" :> [representatives |-> << [party |-> "Republican"] >>])],
       order |-> <<"WY-AL">>] }

(***************************************************************************)
(* The mapper run: both mappers on one response and one cache.             *)
(***************************************************************************)

LookupIdle ==
    /\ pc = "idle"
    /\ address = ""
    /\ keep_fields = NoFields
    /\ delete_fields = NoFields
    /\ result = None
    /\ requests = <<>>
    /\ attempts = <<>>
    /\ outcomes = <<>>
    /\ returned = None

MapperIdle ==
    /\ data = EmptyDict
    /\ mapped = "idle"
    /\ generic_result = None
    /\ fallback_result = None

FilterIdle ==
    /\ row = EmptyDict
    /\ row_keep = NoFields
    /\ row_delete = NoFields
    /\ filtered = None
    /\ leg_data = EmptyDict
    /\ leg_order = <<>>
    /\ leg_filtered = None
    /\ text = ""

BuilderIdle ==
    /\ now = 0
    /\ csv_file = None
    /\ out_file = None
    /\ bpc = "idle"
    /\ file_before = None
    /\ out_before = None
    /\ checked_at = 0
    /\ requested = FALSE
    /\ df = None
    /\ leg_dict = None

MapperInit ==
    /\ CACHED_LEGISLATORS \in Caches
    /\ USE_GENERIC_PARSER = TRUE
    /\ ENV_API_KEY = "key"
    /\ data \in Responses
    /\ mapped = "none"
    /\ generic_result = None
    /\ fallback_result = None
    /\ LookupIdle
    /\ FilterIdle
    /\ BuilderIdle

\* parse_result_generic(data, CACHED_LEGISLATORS)
MapGeneric ==
    /\ mapped = "none"
    /\ generic_result' = parse_result_generic(data, CACHED_LEGISLATORS)
    /\ mapped' = "generic"
    /\ UNCHANGED <<env_vars, data, fallback_result, lookup_vars, filter_vars, builder_vars>>

\* parse_result(data)
MapFallback ==
    /\ mapped = "generic"
    /\ fallback_result' = parse_result(data, CACHED_LEGISLATORS)
    /\ mapped' = "both"
    /\ UNCHANGED <<env_vars, data, generic_result, lookup_vars, filter_vars, builder_vars>>

MapperNext == MapGeneric \/ MapFallback

MapperSpec == MapperInit /\ [][MapperNext]_vars

(***************************************************************************)
(* The lookup: one call of get_us_district_info_from_address.              *)
(***************************************************************************)

Init ==
    /\ CACHED_LEGISLATORS \in {NoCache, BuiltCache}
    /\ USE_GENERIC_PARSER \in BOOLEAN
    /\ ENV_API_KEY \in {"", "key"}
    /\ MapperIdle
    /\ pc = "start"
    /\ address \in Addresses
    /\ \E args \in FieldArgs : keep_fields = args[1] /\ delete_fields = args[2]
    /\ result = None
    /\ requests = <<>>
    /\ attempts = <<>>
    /\ outcomes = <<>>
    /\ returned = None
    /\ FilterIdle
    /\ BuilderIdle

\* get_api_key whose exit the except clause catches: the attempt returns None
ApiKeyMissing_Swallowed ==
    /\ pc = "start"
    /\ ENV_API_KEY = ""
    /\ result' = None
    /\ attempts' = Append(attempts, None)
    /\ pc' = "first_done"
    /\ UNCHANGED <<env_vars, mapper_vars, address, keep_fields, delete_fields, requests,
                   outcomes, returned, filter_vars, builder_vars>>

\* get_api_key: sys.exit(1) without a key; SystemExit is no Exception, so the
\* except clause of get_district_info_from_civic_api lets it through
ApiKeyMissing ==
    /\ pc = "start"
    /\ ENV_API_KEY = ""
    /\ pc' = "exit_1"
    /\ UNCHANGED <<env_vars, mapper_vars, address, keep_fields, delete_fields, result,
                   requests, attempts, outcomes, returned, filter_vars,
                   builder_vars>>

\* result = get_district_info_from_civic_api(full_address)
FirstAttempt ==
    /\ pc = "start"
    /\ ENV_API_KEY # ""
    /\ \E outcome \in ResolverOutcomes :
          /\ requests' = Append(requests, full_address(address))
          /\ outcomes' = Append(outcomes, outcome)
          /\ result' = get_district_info_from_civic_api(outcome, USE_GENERIC_PARSER,
                                                        CACHED_LEGISLATORS)
    /\ attempts' = Append(attempts, result')
    /\ pc' = "first_done"
    /\ UNCHANGED <<env_vars, mapper_vars, address, keep_fields, delete_fields, returned,
                   filter_vars, builder_vars>>

\* the ZIP fallback: result = get_district_info_from_civic_api(f"{state_name}, USA")
SecondAttempt ==
    /\ pc = "first_done"
    /\ ENV_API_KEY # ""
    /\ NoDistricts(result)
    /\ FallbackAddress(address) # ""
    /\ \E outcome \in ResolverOutcomes :
          /\ requests' = Append(requests, FallbackAddress(address))
          /\ outcomes' = Append(outcomes, outcome)
          /\ result' = get_district_info_from_civic_api(outcome, USE_GENERIC_PARSER,
                                                        CACHED_LEGISLATORS)
    /\ attempts' = Append(attempts, result')
    /\ pc' = "second_done"
    /\ UNCHANGED <<env_vars, mapper_vars, address, keep_fields, delete_fields, returned,
                   filter_vars, builder_vars>>

\* the error result, or filter_legislator_data(result, keep_fields, delete_fields)
Return ==
    /\ \/ pc = "first_done" /\ ~ (NoDistricts(result) /\ FallbackAddress(address) # "")
       \/ pc = "second_done"
    /\ returned' = ReturnValue(result, address, keep_fields, delete_fields)
    /\ pc' = "returned"
    /\ UNCHANGED <<env_vars, mapper_vars, address, keep_fields, delete_fields, result,
                   requests, attempts, outcomes, filter_vars,
                   builder_vars>>

Next == ApiKeyMissing \/ FirstAttempt \/ SecondAttempt \/ Return

Spec == Init /\ [][Next]_vars

(***************************************************************************)
(* The filter run: filter_data and filter_fields on one record.            *)
(***************************************************************************)

FilterInit ==
    /\ CACHED_LEGISLATORS = NoCache
    /\ USE_GENERIC_PARSER = TRUE
    /\ ENV_API_KEY = "key"
    /\ MapperIdle
    /\ LookupIdle
    /\ row \in Rows
    /\ row_keep \in FieldSets
    /\ row_delete \in FieldSets
    /\ filtered = None
    /\ \E input \in LegInputs : leg_data = input.data /\ leg_order = input.order
    /\ leg_filtered = None
    /\ text = ""
    /\ BuilderIdle

\* filter_data(row, row_keep, row_delete) and filter_fields(row, row_keep, row_delete);
\* filter_legislator_data(leg_data, row_keep, row_delete) and
\* format_text_output(leg_data)
Filter ==
    /\ filtered = None
    /\ filtered' = [filter_data |-> filter_data(row, row_keep, row_delete),
                    filter_fields |-> filter_fields(row, row_keep, row_delete)]
    /\ leg_filtered' = filter_legislator_data(leg_data, row_keep, row_delete)
    /\ text' = format_text_output(leg_data, leg_order)
    /\ UNCHANGED <<env_vars, mapper_vars, lookup_vars, row, row_keep, row_delete,
                   leg_data, leg_order, builder_vars>>

FilterNext == Filter

FilterSpec == FilterInit /\ [][FilterNext]_vars

(***************************************************************************)
(* The cache builder tool: main of update_us_congressional_data.py, run    *)
(* again and again while the clock advances.                               *)
(***************************************************************************)

\* requests.get or raise_for_status raises
DownloadFailure == [raised |-> "RequestException"]

\* what the download does
DownloadOutcomes == {DownloadFailure} \cup CsvContents

\* --keep-fields / --delete-fields of a run of the tool: one list, or none
BuilderArgs ==
    { <<NoFields, NoFields>>,
      <<Fields({"last_name"}), NoFields>>,
      <<Fields({"last_name", "party"}), NoFields>>,
      <<NoFields, Fields({"first_name"})>>,
      <<NoFields, Fields({"state_code", "email"})>>,
      <<NoFields, Fields({"state", "district"})>> }

\* no run of the tool is in progress
BuilderAtRest == bpc \in {"idle", "written", "exit_1", "raised"}

BuilderInit ==
    /\ CACHED_LEGISLATORS = NoCache
    /\ USE_GENERIC_PARSER = TRUE
    /\ ENV_API_KEY = "key"
    /\ MapperIdle
    /\ LookupIdle
    /\ FilterIdle
    /\ now = 0
    /\ csv_file \in {None, [content |-> CsvCurrent, mtime |-> 0]}
    /\ out_file = None
    /\ bpc = "idle"
    /\ file_before = None
    /\ out_before = None
    /\ checked_at = 0
    /\ requested = FALSE
    /\ df = None
    /\ leg_dict = None

\* time passes between two runs, and while a download is in flight
Tick ==
    /\ BuilderAtRest \/ bpc = "download"
    /\ now < MaxClock
    /\ now' = now + 1
    /\ UNCHANGED <<env_vars, mapper_vars, lookup_vars, filter_vars, csv_file, out_file,
                   bpc, file_before, out_before, checked_at, requested, df, leg_dict>>

\* a run of the tool starts: the arguments are parsed and
\* get_current_congress_legislators looks at the cached file; it sends the
\* download request, or reads the file
StartRun ==
    /\ BuilderAtRest
    /\ \E args \in BuilderArgs : keep_fields' = args[1] /\ delete_fields' = args[2]
    /\ file_before' = csv_file
    /\ out_before' = out_file
    /\ checked_at' = now
    /\ leg_dict' = None
    /\ IF Stale(csv_file, now)
       THEN /\ requested' = TRUE
            /\ df' = None
            /\ bpc' = "download"
       ELSE /\ requested' = FALSE
            /\ df' = read_csv(csv_file.content)
            /\ bpc' = "loaded"
    /\ UNCHANGED <<env_vars, mapper_vars, pc, address, result, requests, attempts,
                   outcomes, returned, filter_vars, now, csv_file, out_file>>

\* download() that sets the times of an existing file before it sends the
\* request
FinishDownload_TouchFirst ==
    /\ bpc = "download"
    /\ \E outcome \in DownloadOutcomes :
          IF outcome = DownloadFailure
          THEN /\ bpc' = "raised"
               /\ csv_file' = IF csv_file = None THEN None
                               ELSE [csv_file EXCEPT !.mtime = now]
               /\ UNCHANGED df
          ELSE /\ csv_file' = [content |-> outcome, mtime |-> now]
               /\ df' = read_csv(outcome)
               /\ bpc' = "loaded"
    /\ UNCHANGED <<env_vars, mapper_vars, lookup_vars, filter_vars, now, out_file,
                   file_before, out_before, checked_at, requested, leg_dict>>

\* download(): the request fails and the exception ends the run, or the file
\* is written, its times are set to now, and it is read
FinishDownload ==
    /\ bpc = "download"
    /\ \E outcome \in DownloadOutcomes :
          IF outcome = DownloadFailure
          THEN /\ bpc' = "raised"
               /\ UNCHANGED <<csv_file, df>>
          ELSE /\ csv_file' = [content |-> outcome, mtime |-> now]
               /\ df' = read_csv(outcome)
               /\ bpc' = "loaded"
    /\ UNCHANGED <<env_vars, mapper_vars, lookup_vars, filter_vars, now, out_file,
                   file_before, out_before, checked_at, requested, leg_dict>>

\* main: a list names an unknown column, sys.exit(1)
InvalidFieldsExit ==
    /\ bpc = "loaded"
    /\ FieldsRejected(keep_fields, delete_fields, df.columns)
    /\ bpc' = "exit_1"
    /\ UNCHANGED <<env_vars, mapper_vars, lookup_vars, filter_vars, now, csv_file,
                   out_file, file_before, out_before, checked_at, requested, df,
                   leg_dict>>

\* main: the dictionary is built and written to the output file
BuildAndWrite ==
    /\ bpc = "loaded"
    /\ ~ FieldsRejected(keep_fields, delete_fields, df.columns)
    /\ leg_dict' = build_legislators_dict(df, keep_fields, delete_fields)
    /\ out_file' = leg_dict'
    /\ bpc' = "written"
    /\ UNCHANGED <<env_vars, mapper_vars, lookup_vars, filter_vars, now, csv_file,
                   file_before, out_before, checked_at, requested, df>>

BuilderNext == Tick \/ StartRun \/ FinishDownload \/ InvalidFieldsExit \/ BuildAndWrite

BuilderSpec == BuilderInit /\ [][BuilderNext]_vars

(***************************************************************************)
(* The claims.                                                             *)
(***************************************************************************)

\* the generic mapper has run on data
GenericDone == mapped \in {"generic", "both"}

\* the fallback mapper has run on data
FallbackDone == mapped = "both"

\* ocd_id is one of the identifiers of the response
InResponse(ocd_id) == \E i \in 1..Len(Divisions(data)) : Divisions(data)[i] = ocd_id

\* the response holds the bare identifier of a state and, beside it, nothing
\* but the country
BareStateOnly(ocd_id) ==
    /\ InResponse(ocd_id)
    /\ IsBareState(ocd_id)
    /\ \A i \in 1..Len(Divisions(data)) : Divisions(data)[i] \in {ocd_id, OcdPrefix}

\* C1: a response whose only state-related identifier is the bare identifier of
\* state XX maps to exactly one district, "XX-AL", whose senators are the
\* cached senators of XX, else the two placeholders, and whose representatives
\* list holds the at-large representative of XX.
C1_BareStateGivesAtLarge ==
    GenericDone =>
        \A ocd_id \in OcdIds :
            BareStateOnly(ocd_id) =>
                LET XX == Upper(Split(ocd_id, "state:")[2])
                    districts == generic_result.districts
                    cached == IF /\ "states" \in DOMAIN CACHED_LEGISLATORS
                                 /\ XX \in DOMAIN CACHED_LEGISLATORS.states
                                 /\ "senators" \in DOMAIN CACHED_LEGISLATORS.states[XX]
                              THEN CACHED_LEGISLATORS.states[XX].senators
                              ELSE <<>>
                IN  /\ DOMAIN districts = {XX \o "-AL"}
                    /\ IF cached # <<>>
                       THEN /\ Len(districts[XX \o "-AL"].senators) = Len(cached)
                            /\ \A i \in 1..Len(cached) :
                                  districts[XX \o "-AL"].senators[i]
                                      = SenatorInfo(cached[i], XX)
                       ELSE districts[XX \o "-AL"].senators
                                = << [name |-> "Senator 1 for " \o XX, role |-> "Senator",
                                      state |-> XX],
                                     [name |-> "Senator 2 for " \o XX, role |-> "Senator",
                                      state |-> XX] >>
                    /\ Len(districts[XX \o "-AL"].representatives) = 1
                    /\ districts[XX \o "-AL"].representatives[1].district = XX \o "-AL"
                    /\ districts[XX \o "-AL"].representatives[1].role = "Representative"

\* the identifier of California's 12th district
Ca12Id == "ocd-division/country:us/state:ca/cd:12"

\* C2: a response that holds country:us/state:ca/cd:12 maps, with any cache, to
\* a districts map that holds "CA-12" with a non-empty representatives list and
\* exactly two senators, each of state "CA".
C2_Ca12 ==
    (GenericDone /\ InResponse(Ca12Id)) =>
        /\ "CA-12" \in DOMAIN generic_result.districts
        /\ generic_result.districts["CA-12"].representatives # <<>>
        /\ Len(generic_result.districts["CA-12"].senators) = 2
        /\ \A i \in 1..Len(generic_result.districts["CA-12"].senators) :
              generic_result.districts["CA-12"].senators[i].state = "CA"

\* C2's case: CA-12 mapped beside the bare state, with a cache that holds a
\* single senator of CA
C2_Witness ==
    /\ GenericDone
    /\ Divisions(data) = <<"ocd-division/country:us/state:ca", Ca12Id>>
    /\ CACHED_LEGISLATORS = KeyedCache
    /\ "CA-12" \in DOMAIN generic_result.districts

\* the identifier of the District of Columbia
DcId == "ocd-division/country:us/district:dc"

\* "DC-AL" with exactly one representative, a non-voting delegate, and no senators
DcEntryOk(res) ==
    /\ "DC-AL" \in DOMAIN res.districts
    /\ Len(res.districts["DC-AL"].representatives) = 1
    /\ res.districts["DC-AL"].representatives[1].role = "Delegate (Non-Voting)"
    /\ res.districts["DC-AL"].senators = <<>>

\* C3: a response that holds country:us/district:dc maps, with any cache and by
\* either mapper, to a districts map that holds "DC-AL" with exactly one
\* representative, whose role is "Delegate (Non-Voting)", and no senators.
C3_DcDelegate ==
    /\ (GenericDone /\ InResponse(DcId)) => DcEntryOk(generic_result)
    /\ (FallbackDone /\ InResponse(DcId)) => DcEntryOk(fallback_result)

\* C4: a lookup that ends with no districts found returns a value whose
\* "districts" is the empty map and whose "error" is a non-empty string.
C4_NoDistrictsGivesError ==
    (pc = "returned" /\ NoDistricts(result)) =>
        /\ "districts" \in DOMAIN returned
        /\ returned["districts"] = EmptyDict
        /\ "error" \in DOMAIN returned
        /\ returned["error"] # ""

\* the stripped address is a ZIP of the static table
MappedZip == Strip(address) \in {"94110", "94612", "10001", "82001"}

\* rec holds nothing but fields of orig, with orig's values
SubRecord(rec, orig) == DOMAIN rec \subseteq DOMAIN orig /\ \A k \in DOMAIN rec : rec[k] = orig[k]

\* the lists of got are those of orig, record by record, up to dropped fields
SameLegislators(got, orig) ==
    /\ Len(got) = Len(orig)
    /\ \A i \in 1..Len(got) : SubRecord(got[i], orig[i])

\* C5: when the first attempt gives no districts and the stripped input is a
\* ZIP of the static table, a second attempt is made, with the full name of
\* the ZIP's state followed by ", USA", before anything is returned; when the
\* second attempt finds districts, they are the districts returned (field by
\* field as the caller's filter leaves them), with no "error".
C5_ZipFallback ==
    (pc = "returned" /\ NoDistricts(attempts[1]) /\ MappedZip) =>
        /\ Len(requests) = 2
        /\ requests[2] = STATE_MAPPING[zip_to_state[Strip(address)]] \o ", USA"
        /\ Len(attempts) = 2
        /\ ~ NoDistricts(attempts[2]) =>
              /\ "error" \notin DOMAIN returned
              /\ DOMAIN returned["districts"] = DOMAIN attempts[2]["districts"]
              /\ \A k \in DOMAIN returned["districts"] :
                    /\ SameLegislators(returned["districts"][k].senators,
                                       attempts[2]["districts"][k].senators)
                    /\ SameLegislators(returned["districts"][k].representatives,
                                       attempts[2]["districts"][k].representatives)
              /\ (keep_fields = NoFields /\ delete_fields = NoFields)
                    => returned["districts"] = attempts[2]["districts"]

\* C5's case: a ZIP whose first attempt failed and whose second attempt found
\* districts, returned
C5_Witness ==
    /\ pc = "returned"
    /\ address = " 82001 "
    /\ attempts[1] = None
    /\ requests = <<" 82001 , USA", "Wyoming, USA">>
    /\ "error" \notin DOMAIN returned
    /\ "districts" \in DOMAIN returned
    /\ "WY-AL" \in DOMAIN returned["districts"]

\* the two filters' results on the record of the filter run
FilterResults == {filtered["filter_data"], filtered["filter_fields"]}

\* C6: with a keep-set, the empty one included, the filters return the record
\* restricted to the keep-set: its keys are the keep-set's keys the record
\* holds, with the record's values.
C6_KeepIsIntersection ==
    (filtered # None /\ row_keep.given) =>
        \A res \in FilterResults :
            /\ DOMAIN res = row_keep.fields \cap DOMAIN row
            /\ \A k \in DOMAIN res : res[k] = row[k]

\* C7: with a delete-set and no keep-set, the filters return the record's keys
\* that are not in the delete-set, with the record's values; with neither set,
\* they return the record.
C7_DeleteAndDefault ==
    (filtered # None /\ ~ row_keep.given) =>
        \A res \in FilterResults :
            IF row_delete.given
            THEN /\ DOMAIN res = DOMAIN row \ row_delete.fields
                 /\ \A k \in DOMAIN res : res[k] = row[k]
            ELSE res = row

\* C7's case: a delete-set that names a field of the record, and no keep-set
C7_Witness ==
    /\ filtered # None
    /\ ~ row_keep.given
    /\ row_delete = Fields({"party", "email"})
    /\ DOMAIN row = {"name", "party"}
    /\ DOMAIN filtered["filter_fields"] = {"name"}

\* C9: every key of the districts map the generic mapper returns holds a "-";
\* the bucket of a bare state is no key of it.
C9_OnlyDistrictKeys ==
    GenericDone =>
        /\ \A k \in DOMAIN generic_result.districts : Contains(k, "-")
        /\ \A i \in 1..Len(Divisions(data)) :
              IsBareState(Divisions(data)[i]) =>
                  Upper(Split(Divisions(data)[i], "state:")[2])
                      \notin DOMAIN generic_result.districts

\* C9's case: a bare state mapped beside one of its districts
C9_Witness ==
    /\ GenericDone
    /\ Divisions(data) = <<"ocd-division/country:us/state:ca",
                           "ocd-division/country:us/state:ca/cd:5">>
    /\ DOMAIN generic_result.districts = {"CA-5"}

\* key is a two-letter state or territory code, a "-", and a number or "AL"
IsDistrictKey(key) ==
    LET parts == Split(key, "-")
    IN  /\ Len(parts) = 2
        /\ parts[1] \in DOMAIN STATE_MAPPING \cup territories
        /\ parts[2] = "AL" \/ IsDigit(parts[2])

\* C10: every key of the districts map has the form of a two-letter state or
\* territory code, a "-", and a district number or "AL", whatever identifiers
\* the response holds.
C10_KeyForm ==
    GenericDone => \A k \in DOMAIN generic_result.districts : IsDistrictKey(k)

\* key starts with the code of a territory
TerritoryKey(key) == Len(key) >= 2 /\ SubSeq(key, 1, 2) \in territories

\* C11: every entry of the districts map whose key starts with a territory code
\* (DC, PR, GU, VI, MP, AS) has an empty senators list, whether a bare state
\* identifier, a district: identifier or a /cd: identifier created it.
C11_TerritoryNoSenators ==
    GenericDone =>
        \A k \in DOMAIN generic_result.districts :
            TerritoryKey(k) => generic_result.districts[k].senators = <<>>

\* a run of the tool has looked at the cached CSV file
CsvChecked == bpc \in {"download", "loaded", "raised", "exit_1", "written"}

\* C12: a run issues a download request if and only if the cached CSV file is
\* absent or its modification time is more than 24 hours before the clock of
\* the check; a successful download leaves the file with the clock of its
\* completion as modification time; a run that issues no request, as the run
\* that immediately follows a download does, leaves the file's content and
\* modification time as they were.
C12_DownloadIffStale ==
    /\ CsvChecked =>
          (requested <=> (file_before = None \/ checked_at - file_before.mtime > MaxAge))
    /\ (CsvChecked /\ file_before # None /\ file_before.mtime = checked_at) =>
          ~ requested
    /\ (bpc = "loaded" /\ requested) => csv_file.mtime = now
    /\ (CsvChecked /\ ~ requested) => csv_file = file_before

\* C12's case: a run that starts at the clock at which a download was
\* completed, more than 24 hours after the first run
C12_Witness ==
    /\ bpc = "loaded"
    /\ ~ requested
    /\ now > MaxAge
    /\ file_before = [content |-> CsvShort, mtime |-> now]
    /\ csv_file = file_before

\* a string of digits without its leading zeros
RECURSIVE StripZeros(_)
StripZeros(s) ==
    IF Len(s) > 1 /\ SubSeq(s, 1, 1) = "0" THEN StripZeros(SubSeq(s, 2, Len(s))) ELSE s

\* the indices up to n, in order, at which flags is true
RECURSIVE IndicesUpTo(_, _)
IndicesUpTo(flags, n) ==
    IF n = 0 THEN <<>>
    ELSE IF flags[n] THEN Append(IndicesUpTo(flags, n - 1), n)
    ELSE IndicesUpTo(flags, n - 1)

\* C13: every row of the CSV is placed in exactly one table.  A row whose
\* district cell is empty or missing is appended to states[state].senators, in
\* the order of the file, and creates no entry of districts; a row with a
\* district number, 0 included, sets districts["STATE-N"].representative, N
\* being the number without zero-padding, and adds nothing to states.
C13_RowsInOneTable ==
    bpc = "written" =>
        LET cells == csv_file.content.rows
            n == Len(cells)
            missing(i) == "district" \notin DOMAIN cells[i] \/ cells[i]["district"] = ""
            state(i) == IF "state" \in DOMAIN cells[i] THEN cells[i]["state"]
                        ELSE cells[i]["state_code"]
            key(i) == state(i) \o "-" \o StripZeros(cells[i]["district"])
            image(i) == filter_fields(df.rows[i], keep_fields, delete_fields)
            senators(s) == IndicesUpTo([i \in 1..n |-> missing(i) /\ state(i) = s], n)
            last(k) == CHOOSE i \in 1..n :
                          /\ ~ missing(i) /\ key(i) = k
                          /\ \A j \in 1..n : (~ missing(j) /\ key(j) = k) => j <= i
        IN  /\ DOMAIN leg_dict = {"states", "districts"}
            /\ DOMAIN leg_dict.states = {state(i) : i \in {j \in 1..n : missing(j)}}
            /\ \A s \in DOMAIN leg_dict.states :
                  /\ DOMAIN leg_dict.states[s] = {"senators"}
                  /\ leg_dict.states[s].senators
                        = [x \in 1..Len(senators(s)) |-> image(senators(s)[x])]
            /\ DOMAIN leg_dict.districts = {key(i) : i \in {j \in 1..n : ~ missing(j)}}
            /\ \A k \in DOMAIN leg_dict.districts :
                  leg_dict.districts[k] = [representative |-> image(last(k))]
            /\ \A i \in 1..n :
                  (~ missing(i) /\ cells[i]["district"] = "0") =>
                      state(i) \o "-0" \in DOMAIN leg_dict.districts

\* C13's case: a file with a senator, an at-large seat, and a zero-padded
\* district number, built with the fields outside the keep-list dropped
C13_Witness ==
    /\ bpc = "written"
    /\ csv_file.content = CsvShort
    /\ keep_fields = Fields({"last_name"})
    /\ DOMAIN leg_dict.districts = {"DC-0", "CA-12"}
    /\ leg_dict.districts["DC-0"].representative = [last_name |-> "Norton"]
    /\ leg_dict.states = ("VT" :> [senators |-> << [last_name |-> "Sanders"],
                                                    [last_name |-> "Welch"] >>])

\* the keep-list or the delete-list of the run names a field that is no column
\* of the loaded CSV
NamesUnknownColumn ==
    \E f \in keep_fields.fields \cup delete_fields.fields : f \notin df.columns

\* C14: a run of the cache builder whose keep-list or delete-list names a
\* field that is not a column of the loaded CSV exits with code 1, and the
\* output JSON file is neither created nor modified.
C14_InvalidFieldsExit ==
    (bpc \in {"exit_1", "written"} /\ NamesUnknownColumn) =>
        /\ bpc = "exit_1"
        /\ out_file = out_before

\* C14's case: a run with a keep-list that names a column the CSV has lost,
\* after a run that wrote the output file
C14_Witness ==
    /\ bpc = "exit_1"
    /\ keep_fields = Fields({"last_name", "party"})
    /\ csv_file.content = CsvShort
    /\ out_before # None
    /\ out_file = out_before

\* C15: without an API key a lookup ends the process with exit code 1: no
\* request is sent to the Division Resolver, no attempt yields a no-result
\* signal, and nothing is returned to the caller.
C15_MissingKeyExits ==
    ENV_API_KEY = "" =>
        /\ pc \in {"start", "exit_1"}
        /\ requests = <<>>
        /\ attempts = <<>>
        /\ result = None
        /\ returned = None

\* C15's case: a lookup of a ZIP of the static table has ended with exit code 1
C15_Witness ==
    /\ ENV_API_KEY = ""
    /\ address = "94110"
    /\ pc = "exit_1"
    /\ requests = <<>>

\* what lookup_divisions did on attempt i made the try block raise
AttemptFailed(i) == outcomes[i] = ResolverFailure \/ MapperRaises(outcomes[i])

\* C16: with an API key, a failure of the Division Resolver or of the mapping
\* step makes the attempt yield the no-result signal; the lookup does not end
\* with an exit or an exception, and what it returns is a result map, which
\* carries an "error" when the last attempt failed.
C16_FailureGivesNoResult ==
    ENV_API_KEY # "" =>
        /\ pc \in {"start", "first_done", "second_done", "returned"}
        /\ Len(attempts) = Len(outcomes)
        /\ \A i \in 1..Len(outcomes) : AttemptFailed(i) => attempts[i] = None
        /\ pc = "returned" =>
              /\ returned # None
              /\ DOMAIN returned \subseteq {"districts", "error"}
              /\ AttemptFailed(Len(outcomes)) =>
                    /\ returned["districts"] = EmptyDict
                    /\ returned["error"] # ""

\* C16's case: the resolver failed on the first attempt and the mapping step
\* raised on the second, and the lookup returned
C16_Witness ==
    /\ ENV_API_KEY # ""
    /\ pc = "returned"
    /\ Len(outcomes) = 2
    /\ outcomes[1] = ResolverFailure
    /\ MapperRaises(outcomes[2])
    /\ "error" \in DOMAIN returned

\* the district ids of a result map
DistrictIds(d) == DOMAIN Get(d, "districts", EmptyDict)

\* got is list with each record field-filtered, in the order of list
FilteredImage(got, list) ==
    /\ Len(got) = Len(list)
    /\ \A i \in 1..Len(list) :
          /\ got[i] = filter_data(list[i], row_keep, row_delete)
          /\ SubRecord(got[i], list[i])

\* C17: filter_legislator_data returns a result with the district ids of its
\* input; per district, its senators and its representatives are those of the
\* input, as many and in the same order, each record field-filtered; an
\* "error" of the input is carried over unchanged, and no other key appears.
C17_FilterKeepsStructure ==
    leg_filtered # None =>
        /\ DistrictIds(leg_filtered) = DistrictIds(leg_data)
        /\ \A k \in DistrictIds(leg_data) :
              /\ DOMAIN leg_filtered["districts"][k] = {"senators", "representatives"}
              /\ FilteredImage(leg_filtered["districts"][k].senators,
                               Get(leg_data["districts"][k], "senators", <<>>))
              /\ FilteredImage(leg_filtered["districts"][k].representatives,
                               Get(leg_data["districts"][k], "representatives", <<>>))
        /\ "error" \in DOMAIN leg_data <=> "error" \in DOMAIN leg_filtered
        /\ "error" \in DOMAIN leg_data => leg_filtered["error"] = leg_data["error"]
        /\ DOMAIN leg_filtered \subseteq {"districts", "error"}

\* C17's case: a result with two districts and an error, filtered with a
\* keep-set
C17_Witness ==
    /\ leg_filtered # None
    /\ leg_order = <<"DC-AL", "CA-5">>
    /\ row_keep = Fields({"name", "party"})
    /\ leg_filtered["districts"]["DC-AL"].representatives
          = << [name |-> "Eleanor Holmes Norton"] >>
    /\ leg_filtered["districts"]["CA-5"].senators = << [name |-> "Senator 1 for CA"] >>
    /\ leg_filtered["error"] = "partial result"

\* s ends with suffix
EndsWith(s, suffix) ==
    Len(s) >= Len(suffix) /\ SubSeq(s, Len(s) - Len(suffix) + 1, Len(s)) = suffix

\* C18: the text rendered for a result that has an "error" ends with a note
\* that carries the error message, also when the result has no districts,
\* where the text states as well that no congressional districts were found.
C18_ErrorNoteRendered ==
    (leg_filtered # None /\ "error" \in DOMAIN leg_data) =>
        /\ EndsWith(text, "Note: " \o leg_data["error"])
        /\ DistrictIds(leg_data) = {} => Contains(text, "No congressional districts found.")

\* ocd_id holds "district:" and is no bare state identifier
DistrictRule(ocd_id) == ~ IsBareState(ocd_id) /\ Contains(ocd_id, "district:")

\* res holds the entry "CODE-AL" of ocd_id, CODE being the upper-cased token
\* between "district:" and the next "/", with a representative: the one the
\* cache holds under that key, else some record
DistrictEntryHasRep(res, ocd_id) ==
    LET code == Upper(Split(Split(ocd_id, "district:")[2], "/")[1])
        key == code \o "-AL"
        cached_rep == CachedRep(CACHED_LEGISLATORS, key)
    IN  /\ key \in DOMAIN res.districts
        /\ res.districts[key].representatives # <<>>
        /\ Truthy(cached_rep) =>
              \E j \in 1..Len(res.districts[key].representatives) :
                  /\ res.districts[key].representatives[j].name = LegislatorName(cached_rep)
                  /\ res.districts[key].representatives[j].party
                        = Get(cached_rep, "party", "Unknown")

\* C19: for every identifier of the response that holds "district:" and is no
\* bare state identifier, either mapper returns the entry "CODE-AL", CODE
\* being the upper-cased token that follows "district:" up to the next "/",
\* and the entry has a representative, the cache's under that key if it has
\* one, else a placeholder: its representatives list is never empty.
C19_DistrictEntryHasRep ==
    \A i \in 1..Len(Divisions(data)) :
        DistrictRule(Divisions(data)[i]) =>
            /\ GenericDone => DistrictEntryHasRep(generic_result, Divisions(data)[i])
            /\ FallbackDone => DistrictEntryHasRep(fallback_result, Divisions(data)[i])

\* ocd_id has the form country:us/state:xx/cd:N
CdRule(ocd_id) ==
    /\ Contains(ocd_id, "state:")
    /\ Contains(ocd_id, "/cd:")
    /\ ~ Contains(ocd_id, "district:")

\* res holds the district "XX-N" of ocd_id with the representative the cache
\* gives for it, else with the placeholder "Representative for XX-N"
CdRepFromCache(res, ocd_id) ==
    LET XX == Upper(Split(Split(ocd_id, "state:")[2], "/")[1])
        N == Upper(Split(Split(ocd_id, "/cd:")[2], "/")[1])
        key == XX \o "-" \o N
        cached_rep == CachedRep(CACHED_LEGISLATORS, key)
        name == IF Truthy(cached_rep) THEN LegislatorName(cached_rep)
                ELSE "Representative for " \o key
    IN  /\ key \in DOMAIN res.districts
        /\ \E j \in 1..Len(res.districts[key].representatives) :
              /\ res.districts[key].representatives[j].name = name
              /\ res.districts[key].representatives[j].district = key

\* C20: for every identifier country:us/state:xx/cd:N of the response, the
\* district "XX-N" ("XX-AL" for "al") that either mapper returns holds the
\* representative derived from the cache's districts["XX-N"].representative
\* when the cache has one, and otherwise the placeholder named
\* "Representative for XX-N", whatever the state and the district.
C20_CdRepFromCache ==
    \A i \in 1..Len(Divisions(data)) :
        CdRule(Divisions(data)[i]) =>
            /\ GenericDone => CdRepFromCache(generic_result, Divisions(data)[i])
            /\ FallbackDone => CdRepFromCache(fallback_result, Divisions(data)[i])

\* the senators the bare-state rule gives for state XX: the cached senators
\* when there are any, else the two placeholders
BareStateSenators(XX) ==
    LET cached == IF /\ "states" \in DOMAIN CACHED_LEGISLATORS
                     /\ XX \in DOMAIN CACHED_LEGISLATORS.states
                     /\ "senators" \in DOMAIN CACHED_LEGISLATORS.states[XX]
                  THEN CACHED_LEGISLATORS.states[XX].senators
                  ELSE <<>>
    IN  IF cached # <<>>
        THEN [i \in 1..Len(cached) |-> SenatorInfo(cached[i], XX)]
        ELSE << [name |-> "Senator 1 for " \o XX, role |-> "Senator", state |-> XX],
                [name |-> "Senator 2 for " \o XX, role |-> "Senator", state |-> XX] >>

\* C21: for every identifier country:us/state:xx/cd:N of the response and every
\* cache, a cache whose states[XX] has an empty senators list included, the
\* senators of "XX-N" are those the bare-state rule gives for XX: the cached
\* senators when there are any, else "Senator 1 for XX" and "Senator 2 for
\* XX", with or without the bare identifier of XX in the response.
C21_CdSenatorsChain ==
    GenericDone =>
        \A i \in 1..Len(Divisions(data)) :
            CdRule(Divisions(data)[i]) =>
                LET ocd_id == Divisions(data)[i]
                    XX == Upper(Split(Split(ocd_id, "state:")[2], "/")[1])
                    N == Upper(Split(Split(ocd_id, "/cd:")[2], "/")[1])
                    key == XX \o "-" \o N
                IN  /\ key \in DOMAIN generic_result.districts
                    /\ generic_result.districts[key].senators = BareStateSenators(XX)

\* C22: whenever the response holds a numbered identifier
\* country:us/state:xx/cd:N, the districts map the generic mapper returns has
\* no key "XX-AL": no at-large entry is made from the bare identifier of a
\* state that has an explicit numbered district in the response.
C22_NoAtLargeBesideNumbered ==
    GenericDone =>
        \A i \in 1..Len(Divisions(data)) :
            LET ocd_id == Divisions(data)[i]
            IN  (CdRule(ocd_id) /\ IsDigit(Split(Split(ocd_id, "/cd:")[2], "/")[1])) =>
                    Upper(Split(Split(ocd_id, "state:")[2], "/")[1]) \o "-AL"
                        \notin DOMAIN generic_result.districts

\* an attempt found districts
FoundDistricts(res) ==
    /\ res # None
    /\ "districts" \in DOMAIN res
    /\ DOMAIN res["districts"] # {}

\* the stripped address is a 5-digit numeric string of the static ZIP table
ZipOfTable ==
    /\ Len(Strip(address)) = 5
    /\ IsDigit(Strip(address))
    /\ Strip(address) \in DOMAIN zip_to_state

\* C23: one lookup invokes the Division Resolver at most twice, and never a
\* third time; exactly once when the first attempt finds districts, and
\* exactly once when the stripped input is no 5-digit numeric string or is a
\* ZIP absent from the static table; a second invocation only follows a first
\* attempt that found no districts.
C23_AtMostTwoRequests ==
    /\ Len(requests) <= 2
    /\ Len(attempts) = Len(requests)
    /\ Len(requests) = 2 => (~ FoundDistricts(attempts[1]) /\ ZipOfTable)
    /\ (pc = "returned" /\ FoundDistricts(attempts[1])) => Len(requests) = 1
    /\ (pc = "returned" /\ ~ ZipOfTable) => Len(requests) = 1

\* C23's case: a lookup of a ZIP absent from the table has returned after a
\* single attempt, which found nothing
C23_Witness ==
    /\ pc = "returned"
    /\ address = "99999"
    /\ Len(requests) = 1
    /\ ~ FoundDistricts(attempts[1])

\* C24: when several rows of the table give the same district key, the
\* dictionary holds under that key the record of the last of them in table
\* order, and of no earlier one; every senator row of a state is kept, in
\* table order, in the senators list of the state.
C24_LastWriterWins ==
    bpc = "written" =>
        LET rows == df.rows
            n == Len(rows)
            rep(i) == "district" \in DOMAIN rows[i] /\ rows[i]["district"] # NaN
            state(i) == IF "state" \in DOMAIN rows[i] THEN rows[i]["state"]
                        ELSE rows[i]["state_code"]
            SameSeat(i, j) ==
                /\ rep(i) /\ rep(j)
                /\ state(i) = state(j)
                /\ rows[i]["district"] = rows[j]["district"]
            IsLast(j) == rep(j) /\ \A k \in 1..n : SameSeat(j, k) => k <= j
            image(i) == filter_fields(rows[i], keep_fields, delete_fields)
        IN  /\ \A j \in 1..n :
                  IsLast(j) =>
                      \E key \in DOMAIN leg_dict.districts :
                          /\ leg_dict.districts[key] = [representative |-> image(j)]
                          /\ \A k \in DOMAIN leg_dict.districts :
                                leg_dict.districts[k] = leg_dict.districts[key]
                                    => (k = key \/ \E m \in 1..n :
                                            m # j /\ IsLast(m) /\ image(m) = image(j))
            /\ Cardinality(DOMAIN leg_dict.districts)
                  = Cardinality({j \in 1..n : IsLast(j)})
            /\ \A s \in DOMAIN leg_dict.states :
                  LET idx == IndicesUpTo([i \in 1..n |-> ~ rep(i) /\ state(i) = s], n)
                  IN  leg_dict.states[s].senators = [x \in 1..Len(idx) |-> image(idx[x])]
            /\ \A i \in 1..n : ~ rep(i) => state(i) \in DOMAIN leg_dict.states

\* C24's case: a table with two rows of CA's 12th district and two senators
\* of VT, built with every field kept
C24_Witness ==
    /\ bpc = "written"
    /\ csv_file.content = CsvShort
    /\ keep_fields = NoFields
    /\ delete_fields = NoFields
    /\ leg_dict.districts["CA-12"].representative.last_name = "Simon"
    /\ Len(leg_dict.states["VT"].senators) = 2
    /\ leg_dict.states["VT"].senators[1].last_name = "Sanders"
    /\ leg_dict.states["VT"].senators[2].last_name = "Welch"

\* the response d names the single-district state xx by its bare state
\* identifier or by its country:us/state:xx/cd:al identifier
NamesAtLargeState(d, xx) ==
    \E i \in 1..Len(Divisions(d)) :
        Divisions(d)[i] \in {OcdPrefix \o "/state:" \o xx,
                             OcdPrefix \o "/state:" \o xx \o "/cd:al"}

\* C25: with the cache that build_legislators_dict makes of a table holding
\* a representative row of WY with district 0, the mapping of a response
\* that names WY by its bare state identifier or by country:us/state:wy/cd:al
\* holds "WY-AL" with the representative derived from that row, and not the
\* placeholder.
C25_BuilderCacheServesAtLarge ==
    (GenericDone /\ CACHED_LEGISLATORS = TableCache /\ NamesAtLargeState(data, "wy")) =>
        LET at_large == read_csv(CsvCurrent).rows[4]
        IN  /\ at_large["state"] = "WY" /\ at_large["district"] = [num |-> 0]
            /\ "WY-AL" \in DOMAIN generic_result.districts
            /\ generic_result.districts["WY-AL"].representatives
                   = << RepData(at_large, "Representative", "WY-AL") >>
            /\ generic_result.districts["WY-AL"].representatives
                   # << PlaceholderRep("WY-AL") >>

\* C26: every entry of the districts map the generic mapper returns has
\* exactly one record in its representatives list, for every response and
\* cache.
C26_OneRepresentativePerEntry ==
    GenericDone =>
        \A key \in DOMAIN generic_result.districts :
            Len(generic_result.districts[key].representatives) = 1

\* the responses that hold the identifiers of d in another order
Reorderings(d) ==
    {e \in Responses :
        /\ "divisions" \in DOMAIN e
        /\ Len(Divisions(e)) = Len(Divisions(d))
        /\ {Divisions(e)[i] : i \in 1..Len(Divisions(e))}
               = {Divisions(d)[i] : i \in 1..Len(Divisions(d))}}

\* C27: the districts map the generic mapper returns does not depend on the
\* order of the identifiers in the response: every response with the same
\* identifiers in another order gives, with the same cache, an equal
\* districts map.
C27_OrderIndependent ==
    (GenericDone /\ "divisions" \in DOMAIN data) =>
        \A e \in Reorderings(data) :
            parse_result_generic(e, CACHED_LEGISLATORS).districts
                = generic_result.districts

\* the run of the tool ended with the exception of the download
DownloadRaised == bpc = "raised"

\* C28: when a refresh is due and the download fails, the run ends with the
\* error, the cached CSV file keeps its content and its modification time
\* and is still due for a refresh, and the next run sends the download
\* request again.
C28_FailedDownloadLeavesFile ==
    /\ [](DownloadRaised =>
             /\ requested
             /\ Stale(file_before, checked_at)
             /\ csv_file = file_before
             /\ out_file = out_before
             /\ leg_dict = None
             /\ Stale(csv_file, now))
    /\ [][(DownloadRaised /\ bpc' # bpc) => (bpc' = "download" /\ requested')]_vars

\* C28's case: the download failed while a cached file existed
C28_Witness ==
    /\ DownloadRaised
    /\ file_before # None
    /\ csv_file = file_before
    /\ now - csv_file.mtime > MaxAge

\* what build_legislators_dict keeps of a table whatever the field lists:
\* the state keys, the district keys, the number of senators of each state
Shape(d) ==
    [states |-> DOMAIN d.states,
     districts |-> DOMAIN d.districts,
     senators |-> [s \in DOMAIN d.states |-> Len(d.states[s].senators)]]

\* keep-sets and delete-sets, those of the tool's runs and others that the
\* validation of main would reject or that are empty
FieldChoices ==
    BuilderArgs \cup { <<Fields({}), NoFields>>,
                       <<NoFields, Fields({"state", "state_code", "district"})>>,
                       <<Fields({"email"}), NoFields>>,
                       <<Fields({"district"}), NoFields>> }

\* C29: the keep-set and the delete-set change only the contents of the
\* records: the dictionary built of a table has the same state keys, the
\* same district keys and the same number of senators per state for every
\* choice of the sets, also when they drop the state and district columns.
C29_FieldsChangeOnlyRecords ==
    bpc = "written" =>
        \A choice \in FieldChoices :
            Shape(build_legislators_dict(df, choice[1], choice[2])) = Shape(leg_dict)

\* C29's case: a table built with the state and district columns dropped
C29_Witness ==
    /\ bpc = "written"
    /\ csv_file.content = CsvShort
    /\ delete_fields = Fields({"state", "district"})
    /\ leg_dict.districts["CA-12"].representative = [last_name |-> "Simon"]
    /\ leg_dict.districts["DC-0"].representative = [last_name |-> "Norton"]
    /\ leg_dict.states["VT"].senators = << [last_name |-> "Sanders"], [last_name |-> "Welch"] >>

\* C30: the two mapper implementations agree: for every response and the
\* same cache, the fallback parse_result and the generic parse_result return
\* equal districts maps.
C30_MappersAgree ==
    FallbackDone => fallback_result.districts = generic_result.districts

====
